---- MODULE Spec2Model ----
(***************************************************************************)
(* ForensicsOverlay: the React component that analyses an image in the     *)
(* browser (components/ForensicsOverlay.js), the page that mounts it and   *)
(* the asynchronously loaded OpenCV script (pages/_document.js), and the   *)
(* second copy of the component kept in the repository (unnamed/part_000). *)
(*                                                                         *)
(* Spec is the component's state machine: the OpenCV script loading, the   *)
(* effect that starts an analysis run on every new src, and each run's     *)
(* callbacks (img.onload, the toBlob promise, img2.onload).  The pixel     *)
(* arithmetic is checked apart, each function under a specification of its *)
(* own that draws its inputs from bounded sets (SpecGrid, SpecThr,         *)
(* SpecNorm, SpecEla).                                                     *)
(***************************************************************************)
EXTENDS Integers, Sequences, FiniteSets, TLC

VARIABLES
    cvState,        \* window.cv: "absent" | "loaded" (cv, no cv.Mat) | "ready"
    hasFastNl,      \* typeof cv.fastNlMeansDenoising === 'function' in this build
    handler,        \* cv.onRuntimeInitialized: 0, or the run whose runAnalysis it holds
    gen,            \* number of effect invocations so far; the current run is gen
    crashed,        \* the effect threw (uncaught): React has unmounted the tree
    pc,             \* per run: where its chain of callbacks stands
    live,           \* per run: the buffers it has allocated and not released
    maps,           \* per run: the score maps it has completed
    log,            \* per run: the steps it has executed, in order
    cvCalls,        \* per run: the filter calls denoise made
    starts,         \* per run: how many times runAnalysis was invoked
    finishedAtGen,  \* per run: gen when its img2.onload drew and called setLoading (0: never)
    canvas,         \* the visible canvas: whose image, whose highlight rectangles
    loading,        \* useState(true)
    consoleOut,     \* console.warn / console.error lines emitted
    fn,             \* pure-function specifications: which function is applied
    arg,            \* ... its input
    res             \* ... its result, <<>> until applied

mainVars == <<cvState, hasFastNl, handler, gen, crashed, pc, live, maps, log,
              cvCalls, starts, finishedAtGen, canvas, loading, consoleOut>>
pureVars == <<fn, arg, res>>
vars == <<mainVars, pureVars>>

\* Bound: how many times the page sets a new src (each one runs the effect).
MaxRuns == 2

Runs == 1..MaxRuns

----------------------------------------------------------------------------
(* Small helpers *)

RECURSIVE SeqToSet(_)
SeqToSet(s) == IF s = <<>> THEN {} ELSE {Head(s)} \cup SeqToSet(Tail(s))

RECURSIVE UnionAll(_)
UnionAll(S) == IF S = {} THEN {}
               ELSE LET x == CHOOSE y \in S : TRUE IN x \cup UnionAll(S \ {x})

\* Position of step in a sequence of steps, 0 when absent.
IndexOf(s, step) ==
    IF \E i \in 1..Len(s) : s[i] = step
    THEN CHOOSE i \in 1..Len(s) : s[i] = step /\ \A j \in 1..(i-1) : s[j] # step
    ELSE 0

----------------------------------------------------------------------------
(* denoise(cv, gray) *)

WarnNoFastNl == "[ForensicsOverlay] fastNlMeansDenoising unavailable, using GaussianBlur"

\* The variant of unnamed/part_000, which calls the filter without probing for it:
\* a TypeError when the build lacks it.
denoiseUnchecked(fastNl, gray) ==
    IF fastNl
    THEN [calls |-> << [f |-> "fastNlMeansDenoising", src |-> gray, dst |-> "denoised",
                        h |-> 10, templateWindowSize |-> 7, searchWindowSize |-> 21] >>,
          warn |-> {}, threw |-> FALSE, ret |-> "denoised"]
    ELSE [calls |-> <<>>, warn |-> {}, threw |-> TRUE, ret |-> "none"]

\* denoise: one new Mat, then exactly one of the two filters.
denoise(fastNl, gray) ==
    IF fastNl
    THEN [calls |-> << [f |-> "fastNlMeansDenoising", src |-> gray, dst |-> "denoised",
                        h |-> 10, templateWindowSize |-> 7, searchWindowSize |-> 21] >>,
          warn |-> {}, threw |-> FALSE, ret |-> "denoised"]
    ELSE [calls |-> << [f |-> "GaussianBlur", src |-> gray, dst |-> "denoised",
                        ksize |-> <<3, 3>>, sigmaX |-> 0, sigmaY |-> 0,
                        borderType |-> "BORDER_DEFAULT"] >>,
          warn |-> {WarnNoFastNl}, threw |-> FALSE, ret |-> "denoised"]

----------------------------------------------------------------------------
(* The steps of the two handlers of a run, in the order the code executes them *)

\* A variant that starts the re-encode before the residual-noise map exists.
OnloadStepsEarlyBlob ==
    << "setCanvas", "imread", "cvtColor", "variance", "grid", "offscreen",
       "toBlob", "denoise", "residual", "prnu" >>

\* img.onload, lines 42-140.
OnloadSteps ==
    << "setCanvas", "imread", "cvtColor", "variance", "grid", "denoise",
       "residual", "prnu", "offscreen", "toBlob" >>

\* img2.onload, lines 143-192.
Img2Steps ==
    << "decoded", "ela", "normalize", "fuse", "threshold", "draw", "revoke",
       "deleteMats", "setLoading" >>

\* The buffers a step allocates and keeps (roi, col and row views are deleted
\* inside the loops that make them).
Allocs(step) ==
    CASE step = "imread"   -> {"srcMat"}
      [] step = "cvtColor" -> {"gray"}
      [] step = "variance" -> {"sqVar"}
      [] step = "grid"     -> {"tmpGrid"}
      [] step = "denoise"  -> {"denoised"}
      [] step = "residual" -> {"residual"}
      [] step = "prnu"     -> {"sqPrnu"}
      [] OTHER             -> {}

\* The score map a step completes.
Completes(step) ==
    CASE step = "variance" -> {"varMap"}
      [] step = "grid"     -> {"gridMap"}
      [] step = "prnu"     -> {"prnuMap"}
      [] step = "ela"      -> {"elaMap"}
      [] OTHER             -> {}

\* What matsToDelete holds when img2.onload runs.
matsToDelete == {"srcMat", "gray", "sqVar", "tmpGrid", "denoised", "residual", "sqPrnu"}

\* The steps of img.onload in which the environment may make an OpenCV call
\* throw (cvtColor, multiply, absdiff, subtract), each after the step's Mat
\* has been constructed.
FailSteps == {"cvtColor", "variance", "grid", "residual", "prnu"}

AllMaps == {"varMap", "gridMap", "prnuMap", "elaMap"}

\* The index of the step at which img.onload stops with an exception: the
\* injected one, or the denoise step when denoise itself throws; 0 when the
\* handler runs to its end.
StopIndex(failStep, fastNl) ==
    LET inj == IndexOf(OnloadSteps, failStep)
        dn  == IF denoise(fastNl, "gray").threw THEN IndexOf(OnloadSteps, "denoise") ELSE 0
        S   == {i \in {inj, dn} : i > 0}
    IN IF S = {} THEN 0 ELSE CHOOSE i \in S : \A j \in S : i <= j

\* The steps img.onload completes.
OnloadDone(failStep, fastNl) ==
    LET k == StopIndex(failStep, fastNl)
    IN IF k = 0 THEN OnloadSteps ELSE SubSeq(OnloadSteps, 1, k - 1)

\* The buffers img.onload leaves allocated: those of the completed steps and
\* of the step that threw (its Mats are constructed before the call that throws).
OnloadLive(failStep, fastNl) ==
    LET k == StopIndex(failStep, fastNl)
        n == IF k = 0 THEN Len(OnloadSteps) ELSE k
    IN UnionAll({Allocs(OnloadSteps[i]) : i \in 1..n})

----------------------------------------------------------------------------
(* What the component renders, lines 208-213 *)

Render ==
    IF crashed THEN {}
    ELSE IF loading THEN {"Analyzing", "canvas"} ELSE {"canvas"}

----------------------------------------------------------------------------
(* The state machine *)

PureIdle == fn = "none" /\ arg = <<>> /\ res = <<>>

Init ==
    /\ cvState = "absent"
    /\ hasFastNl \in BOOLEAN
    /\ handler = 0
    /\ gen = 0
    /\ crashed = FALSE
    /\ pc = [r \in Runs |-> "none"]
    /\ live = [r \in Runs |-> {}]
    /\ maps = [r \in Runs |-> {}]
    /\ log = [r \in Runs |-> <<>>]
    /\ cvCalls = [r \in Runs |-> <<>>]
    /\ starts = [r \in Runs |-> 0]
    /\ finishedAtGen = [r \in Runs |-> 0]
    /\ canvas = [img |-> 0, overlay |-> 0]
    /\ loading = TRUE
    /\ consoleOut = {}
    /\ PureIdle

\* The async <script> of _document.js has run: window.cv exists, its runtime
\* is not initialised yet.
ScriptLoaded ==
    /\ cvState = "absent"
    /\ cvState' = "loaded"
    /\ UNCHANGED <<hasFastNl, handler, gen, crashed, pc, live, maps, log, cvCalls,
                   starts, finishedAtGen, canvas, loading, consoleOut, pureVars>>

\* The runtime is initialised: cv.Mat exists, and cv.onRuntimeInitialized, when
\* set, is called: runAnalysis of the run that registered it.
RuntimeInitialized ==
    /\ cvState = "loaded"
    /\ cvState' = "ready"
    /\ IF handler # 0
       THEN /\ pc' = [pc EXCEPT ![handler] = "imgLoading"]
            /\ starts' = [starts EXCEPT ![handler] = @ + 1]
       ELSE UNCHANGED <<pc, starts>>
    /\ UNCHANGED <<hasFastNl, handler, gen, crashed, live, maps, log, cvCalls,
                   finishedAtGen, canvas, loading, consoleOut, pureVars>>

\* Home.handleFile -> setSrc: the component mounts or re-renders with a new src
\* and its effect runs (lines 32, 199-206).  `cv` at line 199 is the global: a
\* ReferenceError while the script has not defined it.
SetSrc ==
    /\ gen < MaxRuns
    /\ ~crashed
    /\ gen' = gen + 1
    /\ CASE cvState = "absent" ->
              /\ crashed' = TRUE
              /\ pc' = [pc EXCEPT ![gen + 1] = "effectThrew"]
              /\ UNCHANGED <<handler, starts>>
         [] cvState = "ready" ->
              /\ pc' = [pc EXCEPT ![gen + 1] = "imgLoading"]
              /\ starts' = [starts EXCEPT ![gen + 1] = @ + 1]
              /\ UNCHANGED <<handler, crashed>>
         [] cvState = "loaded" ->
              /\ handler' = gen + 1
              /\ pc' = [pc EXCEPT ![gen + 1] = "waiting"]
              /\ UNCHANGED <<crashed, starts>>
    /\ UNCHANGED <<cvState, hasFastNl, live, maps, log, cvCalls, finishedAtGen,
                   canvas, loading, consoleOut, pureVars>>

\* img.onerror, line 41.
ImgError(r) ==
    /\ pc[r] = "imgLoading"
    /\ pc' = [pc EXCEPT ![r] = "imgError"]
    /\ consoleOut' = consoleOut \cup {"[ForensicsOverlay] Image load error"}
    /\ UNCHANGED <<cvState, hasFastNl, handler, gen, crashed, live, maps, log,
                   cvCalls, starts, finishedAtGen, canvas, loading, pureVars>>

\* img.onload, lines 42-140, as one handler: it sizes the canvas and draws the
\* image, computes the three synchronous maps and starts the re-encode, or
\* stops at the step that throws.
ImgLoad(r, failStep) ==
    /\ pc[r] = "imgLoading"
    /\ LET done == OnloadDone(failStep, hasFastNl)
           dn   == denoise(hasFastNl, "gray")
           reachedDenoise ==
               LET k == StopIndex(failStep, hasFastNl)
               IN k = 0 \/ k >= IndexOf(OnloadSteps, "denoise")
       IN /\ log' = [log EXCEPT ![r] = done]
          /\ live' = [live EXCEPT ![r] = OnloadLive(failStep, hasFastNl)]
          /\ maps' = [maps EXCEPT ![r] = UnionAll({Completes(done[i]) : i \in 1..Len(done)})]
          /\ cvCalls' = [cvCalls EXCEPT ![r] = IF reachedDenoise THEN dn.calls ELSE <<>>]
          /\ consoleOut' = IF reachedDenoise THEN consoleOut \cup dn.warn ELSE consoleOut
          /\ pc' = [pc EXCEPT ![r] = IF Len(done) = Len(OnloadSteps)
                                     THEN "blobPending" ELSE "threw"]
          /\ canvas' = IF "setCanvas" \in SeqToSet(done)
                       THEN [img |-> r, overlay |-> 0] ELSE canvas
    /\ UNCHANGED <<cvState, hasFastNl, handler, gen, crashed, starts,
                   finishedAtGen, loading, pureVars>>

\* The toBlob promise resolves, lines 140-142, 194: with a blob, an object URL
\* is created and img2 starts to decode it; with null, createObjectURL throws.
BlobReady(r, blobOk) ==
    /\ pc[r] = "blobPending"
    /\ IF blobOk
       THEN /\ live' = [live EXCEPT ![r] = @ \cup {"url"}]
            /\ log' = [log EXCEPT ![r] = Append(@, "createObjectURL")]
            /\ pc' = [pc EXCEPT ![r] = "decodePending"]
       ELSE /\ pc' = [pc EXCEPT ![r] = "threw"]
            /\ UNCHANGED <<live, log>>
    /\ UNCHANGED <<cvState, hasFastNl, handler, gen, crashed, maps, cvCalls,
                   starts, finishedAtGen, canvas, loading, consoleOut, pureVars>>

\* img2.onload, lines 143-193, as one handler: the ELA map, normalisation,
\* fusion, threshold, the highlight rectangles, then the releases and
\* setLoading(false).
Img2Load(r) ==
    /\ pc[r] = "decodePending"
    /\ log' = [log EXCEPT ![r] = @ \o Img2Steps]
    /\ maps' = [maps EXCEPT ![r] = @ \cup UnionAll({Completes(Img2Steps[i]) : i \in 1..Len(Img2Steps)})]
    /\ canvas' = [img |-> r, overlay |-> r]
    /\ live' = [live EXCEPT ![r] = (@ \ {"url"}) \ matsToDelete]
    /\ loading' = FALSE
    /\ finishedAtGen' = [finishedAtGen EXCEPT ![r] = gen]
    /\ pc' = [pc EXCEPT ![r] = "done"]
    /\ UNCHANGED <<cvState, hasFastNl, handler, gen, crashed, cvCalls, starts,
                   consoleOut, pureVars>>

\* The re-encoded image fails to decode: img2 has no onerror, nothing runs.
Img2Error(r) ==
    /\ pc[r] = "decodePending"
    /\ pc' = [pc EXCEPT ![r] = "decodeFailed"]
    /\ UNCHANGED <<cvState, hasFastNl, handler, gen, crashed, live, maps, log,
                   cvCalls, starts, finishedAtGen, canvas, loading, consoleOut,
                   pureVars>>

Next ==
    \/ ScriptLoaded
    \/ RuntimeInitialized
    \/ SetSrc
    \/ \E r \in Runs : ImgError(r)
    \/ \E r \in Runs, f \in FailSteps \cup {"none"} : ImgLoad(r, f)
    \/ \E r \in Runs, b \in BOOLEAN : BlobReady(r, b)
    \/ \E r \in Runs : Img2Load(r)
    \/ \E r \in Runs : Img2Error(r)

Spec == Init /\ [][Next]_vars

----------------------------------------------------------------------------
(* The pure functions of the analysis, each applied to inputs drawn by the  *)
(* Init of its own specification.  The state machine above stays idle.      *)

MainIdle ==
    /\ cvState = "absent" /\ hasFastNl = FALSE /\ handler = 0 /\ gen = 0
    /\ crashed = FALSE
    /\ pc = [r \in Runs |-> "none"]
    /\ live = [r \in Runs |-> {}]
    /\ maps = [r \in Runs |-> {}]
    /\ log = [r \in Runs |-> <<>>]
    /\ cvCalls = [r \in Runs |-> <<>>]
    /\ starts = [r \in Runs |-> 0]
    /\ finishedAtGen = [r \in Runs |-> 0]
    /\ canvas = [img |-> 0, overlay |-> 0]
    /\ loading = TRUE
    /\ consoleOut = {}

Applied == res # <<>>
Out == res[1]

\* Row-major flattening of a map (rows 0.., columns 0..): Array.prototype.flat.
RECURSIVE FlatRow(_, _)
FlatRow(row, bx) ==
    IF bx \notin DOMAIN row THEN <<>> ELSE <<row[bx]>> \o FlatRow(row, bx + 1)
RECURSIVE FlatFrom(_, _)
FlatFrom(mat, by) ==
    IF by \notin DOMAIN mat THEN <<>> ELSE FlatRow(mat[by], 0) \o FlatFrom(mat, by + 1)
Flat(mat) == FlatFrom(mat, 0)

\* The blocks of a map.
Blocks(mat) == {<<by, bx>> \in (DOMAIN mat) \X (0..64) : bx \in DOMAIN mat[by]}

\* Rows and columns of a map: mat.length and mat[0].length (0 for no rows).
Shape(mat) ==
    << Cardinality(DOMAIN mat),
       IF 0 \in DOMAIN mat THEN Cardinality(DOMAIN mat[0]) ELSE 0 >>

----------------------------------------------------------------------------
(* The block grid *)

\* Bounds of the grid inputs; the 100x50 image with blockSize 32 is added.
MaxDim == 5
MaxBlock == 3
Dims == (1..MaxDim) \cup {50, 100}
BlockSizes == (1..MaxBlock) \cup {32}

\* Math.ceil(a / b) and Math.floor(a / b) for a >= 0, b > 0.
MathCeil(a, b) == IF a % b = 0 THEN a \div b ELSE (a \div b) + 1
MathFloor(a, b) == a \div b

\* components/ForensicsOverlay.js, lines 54-55.
byCount(h, blockSize) == MathCeil(h, blockSize)
bxCount(w, blockSize) == MathCeil(w, blockSize)

\* unnamed/part_000, lines 45-46.
blocksY(h, blockSize) == MathFloor(h, blockSize)
blocksX(w, blockSize) == MathFloor(w, blockSize)

\* Array.from({ length: rows }, () => new Array(cols).fill(0))
ZeroMap(rows, cols) == [by \in 0..(rows - 1) |-> [bx \in 0..(cols - 1) |-> 0]]

\* mat.map(r => r.map(v => 0)): a new map over the same rows and columns.
MapZero(mat) == [by \in DOMAIN mat |-> [bx \in DOMAIN mat[by] |-> 0]]

\* The maps of one run of either copy of the component, as allocated: the
\* four detector maps from the grid counts, the composite by mapping over
\* the variance map, the highlight decision by iterating the composite
\* (components) or the grid counts again (part_000, lines 153-154).
GridMaps(a) ==
    LET rows == IF a.impl = "components" THEN byCount(a.h, a.blockSize)
                ELSE blocksY(a.h, a.blockSize)
        cols == IF a.impl = "components" THEN bxCount(a.w, a.blockSize)
                ELSE blocksX(a.w, a.blockSize)
        varMap == ZeroMap(rows, cols)
        composite == MapZero(varMap)
    IN [varMap |-> varMap, gridMap |-> ZeroMap(rows, cols),
        prnuMap |-> ZeroMap(rows, cols), elaMap |-> ZeroMap(rows, cols),
        composite |-> composite,
        highlight |-> IF a.impl = "components" THEN MapZero(composite)
                      ELSE ZeroMap(rows, cols)]

InitGrid ==
    /\ MainIdle /\ fn = "grid" /\ res = <<>>
    /\ arg \in [impl : {"components", "part_000"}, w : Dims, h : Dims,
                blockSize : BlockSizes]

ApplyGrid ==
    /\ fn = "grid" /\ ~Applied
    /\ res' = <<GridMaps(arg)>>
    /\ UNCHANGED <<mainVars, fn, arg>>

SpecGrid == InitGrid /\ [][ApplyGrid]_vars

\* The least n with n * b >= a.
CeilOf(a, b) == CHOOSE n \in 0..a : n * b >= a /\ \A m \in 0..(n - 1) : m * b < a

\* C5: the grid has ceil(h / blockSize) rows and ceil(w / blockSize) columns,
\* so that a trailing partial row or column is a block of its own, and the
\* four detector maps, the composite and the highlight decision of a run all
\* have that shape.
C5_GridShape ==
    (fn = "grid" /\ Applied) =>
        \A m \in {"varMap", "gridMap", "prnuMap", "elaMap", "composite", "highlight"} :
            Shape(Out[m]) = << CeilOf(arg.h, arg.blockSize), CeilOf(arg.w, arg.blockSize) >>

----------------------------------------------------------------------------
(* Threshold and highlight decision *)

\* Bounds of the threshold inputs: composite values are counted in tenths.
MaxScore == 3
Percents == {0, 25, 50, 80, 99, 100}
ThrShapes == { <<1, 1>>, <<1, 2>>, <<2, 1>>, <<2, 2>>, <<1, 3>> }

\* The ten values 0.1 .. 1.0, in tenths, as a 2 x 5 composite map.
TenValues == [by \in 0..1 |-> [bx \in 0..4 |-> 5 * by + bx + 1]]

\* Array.prototype.sort((a, b) => a - b): ascending, by insertion.
RECURSIVE Insert(_, _)
Insert(v, s) ==
    IF s = <<>> THEN <<v>>
    ELSE IF v <= Head(s) THEN <<v>> \o s
    ELSE <<Head(s)>> \o Insert(v, Tail(s))
RECURSIVE SortAsc(_)
SortAsc(s) == IF s = <<>> THEN <<>> ELSE Insert(Head(s), SortAsc(Tail(s)))

\* flatC[Math.floor(flatC.length * thresholdPercent / 100)], lines 179-180:
\* <<v>> for the element at that index, <<>> for undefined (no such index).
thr(composite, thresholdPercent) ==
    LET flatC == SortAsc(Flat(composite))
        index == MathFloor(Len(flatC) * thresholdPercent, 100)
    IN IF index < Len(flatC) THEN << flatC[index + 1] >> ELSE <<>>

\* score >= thr, line 185: false when thr is undefined.
AtLeast(score, t) == t # <<>> /\ score >= t[1]

\* The blocks that get a rectangle, lines 184-188.
Highlighted(composite, thresholdPercent) ==
    LET t == thr(composite, thresholdPercent)
    IN {b \in Blocks(composite) : AtLeast(composite[b[1]][b[2]], t)}

\* The inputs: a composite map of one of the shapes, or the ten values, and a
\* percentage.
InitThr ==
    /\ MainIdle /\ fn = "threshold" /\ res = <<>>
    /\ \E p \in Percents :
        \/ \E sh \in ThrShapes :
              \E c \in [0..(sh[1] - 1) -> [0..(sh[2] - 1) -> 1..MaxScore]] :
                  arg = [composite |-> c, thresholdPercent |-> p]
        \/ arg = [composite |-> TenValues, thresholdPercent |-> p]

ApplyThr ==
    /\ fn = "threshold" /\ ~Applied
    /\ res' = << [thr |-> thr(arg.composite, arg.thresholdPercent),
                  marked |-> Highlighted(arg.composite, arg.thresholdPercent)] >>
    /\ UNCHANGED <<mainVars, fn, arg>>

SpecThr == InitThr /\ [][ApplyThr]_vars

\* v stands at 0-based index k of the values of c sorted ascending.
IsRank(c, k, v) ==
    /\ Cardinality({b \in Blocks(c) : c[b[1]][b[2]] < v}) <= k
    /\ k < Cardinality({b \in Blocks(c) : c[b[1]][b[2]] <= v})

\* C6: for every thresholdPercent in [0,100] the threshold is the value at
\* index floor(N * thresholdPercent / 100) of the sorted composite values, a
\* block is marked iff its composite is at least the threshold, every block
\* is marked when all composite values are equal, and the ten values
\* 0.1 .. 1.0 at 80 percent mark exactly the two blocks at 0.9 and above.
C6_NearestRank ==
    (fn = "threshold" /\ Applied) =>
        LET c == arg.composite
            N == Cardinality(Blocks(c))
            k == (N * arg.thresholdPercent) \div 100
        IN /\ \E b \in Blocks(c) :
                /\ IsRank(c, k, c[b[1]][b[2]])
                /\ Out.thr = << c[b[1]][b[2]] >>
                /\ Out.marked = {d \in Blocks(c) : c[d[1]][d[2]] >= c[b[1]][b[2]]}
           /\ (\A b, d \in Blocks(c) : c[b[1]][b[2]] = c[d[1]][d[2]]) =>
                  Out.marked = Blocks(c)
           /\ (c = TenValues /\ arg.thresholdPercent = 80) =>
                  Out.marked = {b \in Blocks(c) : c[b[1]][b[2]] >= 9}

\* What the code does do: the claim for thresholdPercent below 100, and no
\* block marked at 100.
ThrBelow100 ==
    (fn = "threshold" /\ Applied) =>
        IF arg.thresholdPercent < 100
        THEN C6_NearestRank
        ELSE Out.thr = <<>> /\ Out.marked = {}

----------------------------------------------------------------------------
(* Normalisation and fusion.  Scores are counted in units of 1e-8, so that  *)
(* the epsilon of line 168 is one unit; a quotient is the pair              *)
(* <<numerator, denominator>>, kept exact.                                  *)

\* 1e-8, in units of 1e-8.
Epsilon == 1

\* Bounds of the raw scores: -1 .. MaxRaw units.
MaxRaw == 1
RawVals == (0 - 1)..MaxRaw
NormShapes == { <<1, 1>>, <<1, 2>>, <<2, 1>> }

RECURSIVE MinOf(_)
MinOf(s) == IF Len(s) = 1 THEN s[1]
            ELSE LET m == MinOf(Tail(s)) IN IF Head(s) < m THEN Head(s) ELSE m
RECURSIVE MaxOf(_)
MaxOf(s) == IF Len(s) = 1 THEN s[1]
            ELSE LET m == MaxOf(Tail(s)) IN IF Head(s) > m THEN Head(s) ELSE m

\* A variant without the epsilon: 0/0 on a constant map.
normalizeNoEpsilon(mat) ==
    LET flat == Flat(mat)
        min == MinOf(flat)
        max == MaxOf(flat)
    IN [ret |-> [by \in DOMAIN mat |-> [bx \in DOMAIN mat[by] |->
                    << mat[by][bx] - min, max - min >>]],
        mat |-> mat]

\* normalize, lines 164-169: the new map it returns, and the argument array
\* as the call leaves it (flat and map write to neither it nor its rows).
normalize(mat) ==
    LET flat == Flat(mat)
        min == MinOf(flat)
        max == MaxOf(flat)
    IN [ret |-> [by \in DOMAIN mat |-> [bx \in DOMAIN mat[by] |->
                    << mat[by][bx] - min, max - min + Epsilon >>]],
        mat |-> mat]

\* r.map(v => 1 - v)
OneMinus(q) == << q[2] - q[1], q[2] >>
Invert(mat) == [by \in DOMAIN mat |-> [bx \in DOMAIN mat[by] |-> OneMinus(mat[by][bx])]]

\* (v + g + p + e) / 4 on exact quotients.
Mean4(v, g, p, e) ==
    << v[1] * g[2] * p[2] * e[2] + g[1] * v[2] * p[2] * e[2]
         + p[1] * v[2] * g[2] * e[2] + e[1] * v[2] * g[2] * p[2],
       4 * v[2] * g[2] * p[2] * e[2] >>

\* Lines 171-177: the four normalised maps (three inverted) and the composite.
Fuse(a) ==
    LET nv == normalize(a.varMap)
        ng == normalize(a.gridMap)
        np == normalize(a.prnuMap)
        ne == normalize(a.elaMap)
        vN == Invert(nv.ret)
        gN == Invert(ng.ret)
        pN == Invert(np.ret)
        eN == ne.ret
    IN [norm |-> [varMap |-> nv.ret, gridMap |-> ng.ret, prnuMap |-> np.ret,
                  elaMap |-> ne.ret],
        vN |-> vN, gN |-> gN, pN |-> pN, eN |-> eN,
        composite |-> [by \in DOMAIN vN |-> [bx \in DOMAIN vN[by] |->
                          Mean4(vN[by][bx], gN[by][bx], pN[by][bx], eN[by][bx])]],
        raw |-> [varMap |-> nv.mat, gridMap |-> ng.mat, prnuMap |-> np.mat,
                 elaMap |-> ne.mat]]

MapNames == {"varMap", "gridMap", "prnuMap", "elaMap"}

\* The inputs: four raw maps of one shape.
InitNorm ==
    /\ MainIdle /\ fn = "fuse" /\ res = <<>>
    /\ \E sh \in NormShapes :
          arg \in [MapNames -> [0..(sh[1] - 1) -> [0..(sh[2] - 1) -> RawVals]]]

ApplyNorm ==
    /\ fn = "fuse" /\ ~Applied
    /\ res' = <<Fuse(arg)>>
    /\ UNCHANGED <<mainVars, fn, arg>>

SpecNorm == InitNorm /\ [][ApplyNorm]_vars

\* A quotient that is a number (no division by zero) in [0,1].
InUnit(q) == q[2] > 0 /\ 0 <= q[1] /\ q[1] <= q[2]

IsConstant(mat) == \A b, d \in Blocks(mat) : mat[b[1]][b[2]] = mat[d[1]][d[2]]

\* C8: every normalised value is in [0,1]; a constant map normalises to all
\* zeros with no division fault, and its inverted map is all ones; the input
\* maps are left as they were; every composite value is in [0,1].
C8_UnitRange ==
    (fn = "fuse" /\ Applied) =>
        /\ \A m \in MapNames : \A b \in Blocks(arg[m]) :
              /\ InUnit(Out.norm[m][b[1]][b[2]])
              /\ IsConstant(arg[m]) => Out.norm[m][b[1]][b[2]][1] = 0
        /\ \A b \in Blocks(arg.varMap) :
              /\ IsConstant(arg.varMap) => Out.vN[b[1]][b[2]][1] = Out.vN[b[1]][b[2]][2]
              /\ IsConstant(arg.gridMap) => Out.gN[b[1]][b[2]][1] = Out.gN[b[1]][b[2]][2]
              /\ IsConstant(arg.prnuMap) => Out.pN[b[1]][b[2]][1] = Out.pN[b[1]][b[2]][2]
              /\ InUnit(Out.composite[b[1]][b[2]])
        /\ Out.raw = arg
        /\ Shape(Out.composite) = Shape(arg.varMap)

\* C8's case: a constant map beside a map that is not, fused.
C8_Witness ==
    /\ fn = "fuse" /\ Applied
    /\ IsConstant(arg.varMap) /\ ~IsConstant(arg.elaMap) /\ ~IsConstant(arg.gridMap)
    /\ Cardinality(Blocks(arg.varMap)) = 2
    /\ \E b \in Blocks(arg.varMap) : Out.composite[b[1]][b[2]][1] > 0

----------------------------------------------------------------------------
(* Error level analysis.  A pixel buffer is ImageData.data: four samples    *)
(* (red, green, blue, alpha) per pixel, row by row, from index 0.           *)

\* Bounds of the images: sides, pixels, block size.
MaxSide == 3
MaxPixels == 6
MaxElaBlock == 2
Samples == {0, 255}

EDims == {d \in (1..MaxSide) \X (1..MaxSide) : d[1] * d[2] <= MaxPixels}

\* The buffer whose red samples are red (by pixel, row-major) and whose other
\* samples are `other`.
ImageData(red, other) ==
    [i \in 0..(4 * Len(red) - 1) |-> IF i % 4 = 0 THEN red[(i \div 4) + 1] ELSE other]

Abs(x) == IF x < 0 THEN 0 - x ELSE x

\* A variant that divides by the clipped area of the block.
elaDivisorClipped(a, by, bx) ==
    LET hBlk == IF a.blockSize < a.h - by * a.blockSize THEN a.blockSize
                ELSE a.h - by * a.blockSize
        wBlk == IF a.blockSize < a.w - bx * a.blockSize THEN a.blockSize
                ELSE a.w - bx * a.blockSize
    IN hBlk * wBlk

\* Line 159: the divisor is blockSize * blockSize, for every block.
elaDivisor(a, by, bx) == a.blockSize * a.blockSize

\* Line 155.
elaIdx(a, py, px) == (py * a.w + px) * 4

\* Lines 149-158: the loops over yy and xx, skipping what is outside the image.
RECURSIVE elaSumX(_, _, _, _, _)
elaSumX(a, by, bx, yy, xx) ==
    IF xx >= a.blockSize THEN 0
    ELSE LET py == by * a.blockSize + yy
             px == bx * a.blockSize + xx
             idx == elaIdx(a, py, px)
         IN (IF py >= a.h \/ px >= a.w THEN 0
             ELSE Abs(a.origData[idx] - a.newData[idx]))
            + elaSumX(a, by, bx, yy, xx + 1)
RECURSIVE elaSumY(_, _, _, _)
elaSumY(a, by, bx, yy) ==
    IF yy >= a.blockSize THEN 0
    ELSE elaSumX(a, by, bx, yy, 0) + elaSumY(a, by, bx, yy + 1)

\* Lines 146-161: elaMap[by][bx] = sum / (blockSize * blockSize), as a quotient.
elaMap(a) ==
    [by \in 0..(byCount(a.h, a.blockSize) - 1) |->
        [bx \in 0..(bxCount(a.w, a.blockSize) - 1) |->
            << elaSumY(a, by, bx, 0), elaDivisor(a, by, bx) >>]]

\* unnamed/part_000, lines 119-131: the floor grid, no test against the image
\* bounds (every block of that grid is whole).
RECURSIVE elaSumXFloor(_, _, _, _, _)
elaSumXFloor(a, by, bx, y, x) ==
    IF x >= a.blockSize THEN 0
    ELSE LET idx == ((by * a.blockSize + y) * a.w + (bx * a.blockSize + x)) * 4
         IN Abs(a.origData[idx] - a.newData[idx]) + elaSumXFloor(a, by, bx, y, x + 1)
RECURSIVE elaSumYFloor(_, _, _, _)
elaSumYFloor(a, by, bx, y) ==
    IF y >= a.blockSize THEN 0
    ELSE elaSumXFloor(a, by, bx, y, 0) + elaSumYFloor(a, by, bx, y + 1)
elaMapFloor(a) ==
    [by \in 0..(blocksY(a.h, a.blockSize) - 1) |->
        [bx \in 0..(blocksX(a.w, a.blockSize) - 1) |->
            << elaSumYFloor(a, by, bx, 0), a.blockSize * a.blockSize >>]]

\* The inputs: an image of w x h pixels, its red samples before and after the
\* re-encode; the other samples differ everywhere (0 before, 255 after).
InitEla ==
    /\ MainIdle /\ fn = "ela" /\ res = <<>>
    /\ \E d \in EDims, i \in {"components", "part_000"}, bs \in 1..MaxElaBlock :
         \E o \in [1..(d[1] * d[2]) -> Samples], n \in [1..(d[1] * d[2]) -> Samples] :
            arg = [impl |-> i, w |-> d[1], h |-> d[2], blockSize |-> bs,
                   origRed |-> o, newRed |-> n,
                   origData |-> ImageData(o, 0), newData |-> ImageData(n, 255)]

ApplyEla ==
    /\ fn = "ela" /\ ~Applied
    /\ res' = << IF arg.impl = "components" THEN elaMap(arg) ELSE elaMapFloor(arg) >>
    /\ UNCHANGED <<mainVars, fn, arg>>

SpecEla == InitEla /\ [][ApplyEla]_vars

\* The pixels <<px, py>> of the image that lie in block (by, bx).
PixelsOf(a, by, bx) ==
    {p \in (0..(a.w - 1)) \X (0..(a.h - 1)) :
        p[1] \div a.blockSize = bx /\ p[2] \div a.blockSize = by}

\* |original red - recompressed red| at pixel p.
RedDelta(a, p) ==
    Abs(a.origRed[p[2] * a.w + p[1] + 1] - a.newRed[p[2] * a.w + p[1] + 1])

RECURSIVE SumDelta(_, _)
SumDelta(a, P) ==
    IF P = {} THEN 0
    ELSE LET p == CHOOSE q \in P : TRUE IN RedDelta(a, p) + SumDelta(a, P \ {p})

\* C9: the raw ELA score of every block is the sum of the red deltas of the
\* block's pixels inside the image, over the nominal blockSize^2; when the two
\* buffers' red samples differ inside one block only, the map is nonzero at
\* that block only.
C9_ElaPerBlock ==
    (fn = "ela" /\ Applied) =>
        /\ \A b \in Blocks(Out) :
              /\ Out[b[1]][b[2]][1] = SumDelta(arg, PixelsOf(arg, b[1], b[2]))
              /\ Out[b[1]][b[2]][2] = arg.blockSize * arg.blockSize
        /\ \A b \in Blocks(Out) :
              (\A p \in (0..(arg.w - 1)) \X (0..(arg.h - 1)) :
                    RedDelta(arg, p) # 0 => p \in PixelsOf(arg, b[1], b[2]))
              => \A d \in Blocks(Out) : d # b => Out[d[1]][d[2]][1] = 0

\* C9's case: a clipped edge block next to a whole one, the buffers differing
\* inside the edge block only.
C9_Witness ==
    /\ fn = "ela" /\ Applied /\ arg.impl = "components"
    /\ arg.w = 3 /\ arg.h = 2 /\ arg.blockSize = 2
    /\ Out[0][1][1] = 2 * 255 /\ Out[0][1][2] = 4
    /\ Out[0][0][1] = 0

----------------------------------------------------------------------------
(* Claims about the state machine *)

StepsOf(r) == SeqToSet(log[r])

EndStates == {"done", "threw", "imgError", "decodeFailed", "effectThrew"}

Quiescent == \A r \in Runs : pc[r] \in EndStates \cup {"none", "waiting"}

\* C1: a run superseded by a newer request is discarded when its round trip
\* completes: it never draws highlight rectangles nor sets the loading state
\* once it is stale, and the overlay finally on the canvas is that of the most
\* recently requested run.
C1_StaleRunDiscarded ==
    /\ \A r \in Runs : finishedAtGen[r] \in {0, r}
    /\ (gen > 0 /\ pc[gen] = "done" /\ Quiescent) => canvas.overlay = gen

\* C2: within a run the three synchronous maps are completed before the
\* re-encode is started, normalisation, fusion, thresholding and drawing come
\* after the re-encoded image is decoded and the ELA map computed, and
\* highlights are drawn only from four completed maps.
C2_StepsOrdered ==
    \A r \in Runs :
      LET s == log[r] IN
        /\ "toBlob" \in StepsOf(r) =>
              \A m \in {"variance", "grid", "prnu"} :
                  0 < IndexOf(s, m) /\ IndexOf(s, m) < IndexOf(s, "toBlob")
        /\ pc[r] \in {"blobPending", "decodePending", "decodeFailed"} =>
              /\ {"varMap", "gridMap", "prnuMap"} \subseteq maps[r]
              /\ "toBlob" \in StepsOf(r)
        /\ \A p \in {"normalize", "fuse", "threshold", "draw"} :
              p \in StepsOf(r) =>
                  /\ 0 < IndexOf(s, "toBlob")
                  /\ IndexOf(s, "toBlob") < IndexOf(s, "decoded")
                  /\ IndexOf(s, "decoded") < IndexOf(s, "ela")
                  /\ IndexOf(s, "ela") < IndexOf(s, p)
        /\ ("draw" \in StepsOf(r) \/ canvas.overlay = r) => maps[r] = AllMaps

\* C2's case: a run has drawn its highlights after a completed round trip.
C2_Witness ==
    \E r \in Runs : pc[r] = "done" /\ canvas.overlay = r /\ "draw" \in StepsOf(r)

\* C3: when a run has ended, on whatever path, none of its buffers (Mats,
\* object URL) is still allocated.
C3_AllBuffersReleased ==
    \A r \in Runs : pc[r] \in EndStates => live[r] = {}

\* C4: when the image fails to load, the run has allocated nothing, computed
\* no map, started no round trip and drawn nothing, and the user sees a load
\* error instead of the 'Analyzing' indicator.
C4_LoadErrorSurfaced ==
    \A r \in Runs :
      pc[r] = "imgError" =>
        /\ live[r] = {} /\ maps[r] = {} /\ log[r] = <<>> /\ finishedAtGen[r] = 0
        /\ r = gen => ("LoadError" \in Render /\ "Analyzing" \notin Render)

\* C7: denoise makes exactly one filter call: fastNlMeansDenoising(gray, new
\* Mat, 10, 7, 21) when the build has it, and then no GaussianBlur; otherwise
\* GaussianBlur with a 3x3 kernel and the default border, with a warning.
\* Either way it returns, and the pipeline goes on past it.
C7_DenoiseOneFilter ==
    /\ hasFastNl => WarnNoFastNl \notin consoleOut
    /\ \A r \in Runs :
        /\ "grid" \in StepsOf(r) => "denoise" \in StepsOf(r)
        /\ "denoise" \in StepsOf(r) =>
            /\ Len(cvCalls[r]) = 1
            /\ "denoised" \in live[r] \/ pc[r] = "done"
            /\ IF hasFastNl
               THEN /\ cvCalls[r][1].f = "fastNlMeansDenoising"
                    /\ cvCalls[r][1].src = "gray" /\ cvCalls[r][1].dst = "denoised"
                    /\ cvCalls[r][1].h = 10
                    /\ cvCalls[r][1].templateWindowSize = 7
                    /\ cvCalls[r][1].searchWindowSize = 21
               ELSE /\ cvCalls[r][1].f = "GaussianBlur"
                    /\ cvCalls[r][1].src = "gray" /\ cvCalls[r][1].dst = "denoised"
                    /\ cvCalls[r][1].ksize = <<3, 3>>
                    /\ cvCalls[r][1].borderType = "BORDER_DEFAULT"
                    /\ WarnNoFastNl \in consoleOut

\* C7's case: a build without the preferred filter, and a run that went on
\* to draw after the fallback.
C7_Witness ==
    \E r \in Runs :
        /\ ~hasFastNl /\ pc[r] = "done"
        /\ Len(cvCalls[r]) = 1 /\ cvCalls[r][1].f = "GaussianBlur"

\* C10: the effect never fails, whatever the state of the OpenCV script; no
\* analysis starts before the runtime is ready, none starts twice, and once
\* the runtime is ready the analysis of the current src has started.
C10_ReadinessGate ==
    /\ \A r \in Runs : pc[r] # "effectThrew"
    /\ \A r \in Runs : starts[r] > 0 => cvState = "ready"
    /\ \A r \in Runs : starts[r] <= 1
    /\ (cvState = "ready" /\ gen > 0) => starts[gen] = 1

\* The states of a run that has been requested and has not ended.
InProgress == {"waiting", "imgLoading", "blobPending", "decodePending"}

\* C11: while the component is mounted, the loading flag (the 'Analyzing'
\* indicator) is true whenever the run of the current props is requested and
\* has not finished, in a second and later analysis as in the first, and it
\* is false once that run has drawn its overlay.
C11_LoadingTracksRun ==
    (gen > 0 /\ ~crashed) =>
        /\ pc[gen] \in InProgress => (loading /\ "Analyzing" \in Render)
        /\ pc[gen] = "done" => (~loading /\ "Analyzing" \notin Render)

====
